---- MODULE Spec2Model ----
\* Feature-flag service (src/app.py): the Auth Gate decorator, the five Flask
\* handlers, the psycopg connection pool they share and the flags table.
\* One request is followed from its arrival to its response, one library call
\* per step; every library call that can raise is allowed to raise.
EXTENDS Integers, FiniteSets, Sequences, TLC

VARIABLES
    flags,        \* the committed flags table: name -> row (NoRow when absent)
    clock,        \* the database clock NOW() reads; it never runs backwards
    checked_out,  \* connections handed out by pool.getconn() and not yet put back
    req           \* per request: its inputs, the handler's locals and position

vars == <<flags, clock, checked_out, req>>

\* ---------------------------------------------------------------- bounds
MaxClock == 2

\* ConnectionPool(..., max_size=5)
max_size == 5

\* requests.get(..., timeout=3)
timeout == 3

\* ---------------------------------------------------------------- values
\* The requests in flight. Every action takes the request it steps, and
\* Locked ranges over the others, so a larger set runs them interleaved.
Reqs == {"r1"}

\* Names a body can carry; the URL converter <string:name> never yields "".
FlagNames == {"", "a"}
UrlNames == {"a"}
Descriptions == {"", "d"}

Mutating == {"create_flag", "update_flag", "delete_flag"}

\* The Authorization header: "None" is headers.get() finding nothing.
AuthHeaders == {"None", "", "key"}

NoRow == [exists |-> FALSE, description |-> "", is_enabled |-> FALSE,
          created_at |-> 0, updated_at |-> 0]

\* request.get_json(): null is None; has_other is a key the handlers ignore.
NullBody == [null |-> TRUE, has_name |-> FALSE, name |-> "",
             has_description |-> FALSE, description |-> "",
             has_is_enabled |-> FALSE, is_enabled |-> FALSE, has_other |-> FALSE]

JsonObjects ==
    { d \in [null : {FALSE}, has_name : BOOLEAN, name : FlagNames,
             has_description : BOOLEAN, description : Descriptions,
             has_is_enabled : BOOLEAN, is_enabled : BOOLEAN,
             has_other : BOOLEAN] :
        /\ ~d.has_name => d.name = ""
        /\ ~d.has_description => d.description = ""
        /\ ~d.has_is_enabled => d.is_enabled = FALSE }

\* Bodies sent to POST /flags.
CreateBodies ==
    {NullBody} \cup
    { d \in JsonObjects :
        /\ ~d.has_other
        /\ d.has_description => d.description = "d"
        /\ d.has_is_enabled => d.is_enabled = TRUE }

\* Bodies sent to PUT /flags/<name>.
UpdateBodies ==
    {NullBody} \cup
    { d \in JsonObjects :
        /\ ~d.has_name
        /\ d.has_other => ~d.has_description /\ ~d.has_is_enabled }

\* What requests.get(.../validate, timeout=3) can do: answer with a status
\* code or raise. ConnectTimeout and ReadTimeout are Timeout subclasses; all
\* three exceptions are RequestException subclasses.
NoCall == [called |-> FALSE, raised |-> "none", status_code |-> 0]
AuthOutcomes ==
    { [called |-> TRUE, raised |-> "none", status_code |-> s] :
        s \in {200, 204, 401, 500} } \cup
    { [called |-> TRUE, raised |-> e, status_code |-> 0] :
        e \in {"ConnectTimeout", "ReadTimeout", "ConnectionError"} }

NoWrite == [kind |-> "none", name |-> "", row |-> NoRow]

IdleReq ==
    [pc |-> "idle", op |-> "get_flags", name |-> "", auth_header |-> "None",
     data |-> NullBody,
     conn |-> "unbound", cur |-> "unbound", exc |-> "none",
     status |-> 0, uncaught |-> FALSE,
     tx |-> "idle", pending |-> NoWrite,
     auth |-> NoCall, ran |-> FALSE, gets |-> 0, puts |-> 0,
     tx_end |-> "none", tx_at_put |-> "none", hit |-> "none", fault |-> "none",
     fetched |-> <<>>, now |-> 0, waited |-> 0]

\* Python truthiness of the values the code tests with `not x` / `if x`.
TruthyHeader(h) == h \notin {"None", ""}
TruthyData(d) ==
    /\ ~d.null
    /\ d.has_name \/ d.has_description \/ d.has_is_enabled \/ d.has_other

Init ==
    /\ flags = [n \in FlagNames |-> NoRow]
    /\ clock = 0
    /\ checked_out = 0
    /\ req = [r \in Reqs |-> IdleReq]

\* ---------------------------------------------------------------- arrival
\* The router hands a request to its (decorated) handler. The URL's name is
\* the handler's argument; the body stays unread until request.get_json().
NewReq(op, h, n) ==
    [IdleReq EXCEPT !.pc = "gate", !.op = op, !.auth_header = h, !.name = n]

Arrive(r) ==
    /\ req[r].pc = "idle"
    /\ \E h \in AuthHeaders :
         \/ \E op \in {"create_flag", "get_flags"} :
              req' = [req EXCEPT ![r] = NewReq(op, h, "")]
         \/ \E op \in {"get_flag", "update_flag", "delete_flag"}, n \in UrlNames :
              req' = [req EXCEPT ![r] = NewReq(op, h, n)]
    /\ UNCHANGED <<flags, clock, checked_out>>

\* The response is sent and the request is over; what it leaked stays leaked.
Respond(r) ==
    /\ req[r].pc = "done"
    /\ req' = [req EXCEPT ![r] = IdleReq]
    /\ UNCHANGED <<flags, clock, checked_out>>

\* ---------------------------------------------------------------- Auth Gate
\* Variant: the test written as `auth_header is None`.
HeaderMissing_IsNone(h) == h = "None"

\* `if not auth_header` (lines 41-43).
HeaderMissing(h) == ~TruthyHeader(h)

\* isinstance(e, requests.exceptions.Timeout)
IsTimeout(e) == e \in {"ConnectTimeout", "ReadTimeout"}

\* Variant: the status check of lines 52-53 left out.
AuthVerdict_NoStatusCheck(o) ==
    IF o.raised = "none" THEN 0
    ELSE IF IsTimeout(o.raised) THEN 504 ELSE 503

\* Variant: `except RequestException` written before `except Timeout`.
AuthVerdict_ExceptSwapped(o) ==
    IF o.raised = "none"
    THEN (IF o.status_code # 200 THEN 401 ELSE 0)
    ELSE 503

\* The try block of decorated (lines 45-58): the status it returns, 0 when it
\* falls through to f(*args, **kwargs).
AuthVerdict(o) ==
    IF o.raised = "none"
    THEN (IF o.status_code # 200 THEN 401 ELSE 0)
    ELSE IF IsTimeout(o.raised) THEN 504 ELSE 503

\* How long requests.get(..., timeout=3) runs. A single timeout value is
\* the limit of the connect phase and, again, of the wait for the response on
\* the connected socket; it is not a limit on the call as a whole. c is the
\* time the connection takes and w the time the response then takes, each cut
\* off at timeout.
Waits == 0 .. timeout

CallFits(o, c, w) ==
    CASE o.raised = "ConnectTimeout" -> c = timeout /\ w = 0
      [] o.raised = "ReadTimeout" -> c < timeout /\ w = timeout
      [] OTHER -> c < timeout /\ w < timeout

Elapsed(c, w) == c + w

require_auth(r) ==
    LET q == req[r] IN
    /\ q.pc = "gate"
    /\ IF HeaderMissing(q.auth_header)
       THEN req' = [req EXCEPT ![r] = [q EXCEPT !.pc = "done", !.status = 401]]
       ELSE \E o \in AuthOutcomes, c \in Waits, w \in Waits :
              /\ CallFits(o, c, w)
              /\ req' = [req EXCEPT ![r] =
                        IF AuthVerdict(o) = 0
                        THEN [q EXCEPT !.pc = "handler", !.auth = o,
                                       !.waited = Elapsed(c, w)]
                        ELSE [q EXCEPT !.pc = "done", !.auth = o,
                                       !.waited = Elapsed(c, w),
                                       !.status = AuthVerdict(o)]]
    /\ UNCHANGED <<flags, clock, checked_out>>

\* ---------------------------------------------------------------- handlers
\* create_flag lines 72-74: 400, or 0 to go on.
CreateValidation(d) ==
    IF ~TruthyData(d) \/ ~d.has_name THEN 400 ELSE 0

\* Variant: the `if not fields` check of lines 162-163 left out.
UpdateValidation_NoFieldCheck(d) ==
    IF ~TruthyData(d) THEN 400 ELSE 0

\* update_flag lines 148-163: 400, or 0 to go on.
UpdateValidation(d) ==
    IF ~TruthyData(d) THEN 400
    ELSE IF ~(d.has_description \/ d.has_is_enabled) THEN 400
    ELSE 0

Validation(op, d) ==
    CASE op = "create_flag" -> CreateValidation(d)
      [] op = "update_flag" -> UpdateValidation(d)
      [] OTHER -> 0

\* Only create_flag binds conn and cur before its try (lines 80-81).
InitLocal(op) == IF op = "create_flag" THEN "None" ELSE "unbound"

\* The bodies a client can send to each route.
Bodies(op) ==
    CASE op = "create_flag" -> CreateBodies
      [] op = "update_flag" -> UpdateBodies
      [] OTHER -> {NullBody}

\* The wrapped handler starts: data = request.get_json(), the validation,
\* then the locals bound before the try. The gate's wait is over and its
\* stopwatch cleared.
handler(r) ==
    LET q == req[r] IN
    /\ q.pc = "handler"
    /\ \E d \in Bodies(q.op) :
         req' = [req EXCEPT ![r] =
                   IF Validation(q.op, d) # 0
                   THEN [q EXCEPT !.pc = "done", !.ran = TRUE, !.data = d,
                                  !.waited = 0,
                                  !.status = Validation(q.op, d)]
                   ELSE [q EXCEPT !.pc = "getconn", !.ran = TRUE, !.data = d,
                                  !.waited = 0,
                                  !.conn = InitLocal(q.op),
                                  !.cur = InitLocal(q.op)]]
    /\ UNCHANGED <<flags, clock, checked_out>>

\* Variant: a pool that opens a new connection whenever it is asked.
getconn_NoLimit(r) ==
    LET q == req[r] IN
    /\ q.pc = "getconn"
    /\ \/ /\ checked_out' = checked_out + 1
          /\ req' = [req EXCEPT ![r] =
                       [q EXCEPT !.pc = "cursor", !.conn = "set",
                                 !.gets = @ + 1, !.tx = "idle"]]
       \/ /\ checked_out' = checked_out
          /\ req' = [req EXCEPT ![r] =
                       [q EXCEPT !.pc = "except", !.exc = "Exception",
                                 !.fault = "getconn"]]
    /\ UNCHANGED <<flags, clock>>

\* conn = pool.getconn(): a connection when one is free, or an exception
\* (pool timeout, database unreachable).
getconn(r) ==
    LET q == req[r] IN
    /\ q.pc = "getconn"
    /\ \/ /\ checked_out < max_size
          /\ checked_out' = checked_out + 1
          /\ req' = [req EXCEPT ![r] =
                       [q EXCEPT !.pc = "cursor", !.conn = "set",
                                 !.gets = @ + 1, !.tx = "idle"]]
       \/ /\ checked_out' = checked_out
          /\ req' = [req EXCEPT ![r] =
                       [q EXCEPT !.pc = "except", !.exc = "Exception",
                                 !.fault = "getconn"]]
    /\ UNCHANGED <<flags, clock>>

\* cur = conn.cursor(...): raises on a connection the server has closed.
cursor(r) ==
    LET q == req[r] IN
    /\ q.pc = "cursor"
    /\ \/ req' = [req EXCEPT ![r] = [q EXCEPT !.pc = "begin", !.cur = "set"]]
       \/ req' = [req EXCEPT ![r] =
                    [q EXCEPT !.pc = "except", !.exc = "Exception",
                              !.fault = "cursor"]]
    /\ UNCHANGED <<flags, clock, checked_out>>

\* ---------------------------------------------------------------- SQL
\* The row a request addresses: the body's name for create, the URL's otherwise.
Target(q) == IF q.op = "create_flag" THEN q.data.name ELSE q.name

\* Variant: writes that take no row lock.
Locked_None(r, n) == FALSE

\* Another open transaction holds an uncommitted write on row n.
Locked(r, n) ==
    \E o \in DOMAIN req \ {r} :
        req[o].pending.kind # "none" /\ req[o].pending.name = n

Result(raised, rowcount, write) ==
    [raised |-> raised, rowcount |-> rowcount, write |-> write]

\* Variant: the INSERT written with ON CONFLICT (name) DO UPDATE.
Insert_Upsert(tbl, d, t) ==
    Result("none", 1,
           [kind |-> IF tbl[d.name].exists THEN "update" ELSE "insert",
            name |-> d.name,
            row |-> [exists |-> TRUE,
                     description |->
                         IF d.has_description THEN d.description ELSE "",
                     is_enabled |->
                         IF d.has_is_enabled THEN d.is_enabled ELSE FALSE,
                     created_at |->
                         IF tbl[d.name].exists THEN tbl[d.name].created_at
                         ELSE t,
                     updated_at |-> t]])

\* Variant: is_enabled read as data.get('is_enabled', True).
Insert_DefaultEnabled(tbl, d, t) ==
    IF tbl[d.name].exists
    THEN Result("UniqueViolation", 0, NoWrite)
    ELSE Result("none", 1,
                [kind |-> "insert", name |-> d.name,
                 row |-> [exists |-> TRUE,
                          description |->
                              IF d.has_description THEN d.description ELSE "",
                          is_enabled |->
                              IF d.has_is_enabled THEN d.is_enabled ELSE TRUE,
                          created_at |-> t, updated_at |-> t]])

\* INSERT INTO flags (...) VALUES (%s, %s, %s, NOW(), NOW()) RETURNING *
\* with description = data.get('description', '') and
\* is_enabled = data.get('is_enabled', False).
Insert(tbl, d, t) ==
    IF tbl[d.name].exists
    THEN Result("UniqueViolation", 0, NoWrite)
    ELSE Result("none", 1,
                [kind |-> "insert", name |-> d.name,
                 row |-> [exists |-> TRUE,
                          description |->
                              IF d.has_description THEN d.description ELSE "",
                          is_enabled |->
                              IF d.has_is_enabled THEN d.is_enabled ELSE FALSE,
                          created_at |-> t, updated_at |-> t]])

\* SELECT * FROM flags WHERE name = %s
Select(tbl, n) ==
    Result("none", IF tbl[n].exists THEN 1 ELSE 0, NoWrite)

\* SELECT * FROM flags ORDER BY name
SelectAll(tbl) ==
    Result("none", Cardinality({n \in DOMAIN tbl : tbl[n].exists}), NoWrite)

\* Variant: the UPDATE creating the row it does not find.
Update_Upsert(tbl, n, d, t) ==
    Result("none", 1,
           [kind |-> IF tbl[n].exists THEN "update" ELSE "insert",
            name |-> n,
            row |-> [exists |-> TRUE,
                     description |->
                         IF d.has_description THEN d.description
                         ELSE tbl[n].description,
                     is_enabled |->
                         IF d.has_is_enabled THEN d.is_enabled
                         ELSE tbl[n].is_enabled,
                     created_at |->
                         IF tbl[n].exists THEN tbl[n].created_at ELSE t,
                     updated_at |-> t]])

\* Variant: the UPDATE without `updated_at = NOW()`.
Update_KeepsStamp(tbl, n, d, t) ==
    IF ~tbl[n].exists
    THEN Result("none", 0, NoWrite)
    ELSE Result("none", 1,
                [kind |-> "update", name |-> n,
                 row |-> [tbl[n] EXCEPT
                     !.description =
                         IF d.has_description THEN d.description ELSE @,
                     !.is_enabled =
                         IF d.has_is_enabled THEN d.is_enabled ELSE @]])

\* Variant: the UPDATE setting both columns, a missing one to its default.
Update_AllFields(tbl, n, d, t) ==
    IF ~tbl[n].exists
    THEN Result("none", 0, NoWrite)
    ELSE Result("none", 1,
                [kind |-> "update", name |-> n,
                 row |-> [tbl[n] EXCEPT
                     !.description = d.description,
                     !.is_enabled = d.is_enabled,
                     !.updated_at = t]])

\* UPDATE flags SET <supplied fields>, updated_at = NOW() WHERE name = %s
Update(tbl, n, d, t) ==
    IF ~tbl[n].exists
    THEN Result("none", 0, NoWrite)
    ELSE Result("none", 1,
                [kind |-> "update", name |-> n,
                 row |-> [tbl[n] EXCEPT
                     !.description =
                         IF d.has_description THEN d.description ELSE @,
                     !.is_enabled =
                         IF d.has_is_enabled THEN d.is_enabled ELSE @,
                     !.updated_at = t]])

\* Variant: a soft delete, the row kept and switched off.
Delete_Soft(tbl, n) ==
    IF ~tbl[n].exists
    THEN Result("none", 0, NoWrite)
    ELSE Result("none", 1,
                [kind |-> "delete", name |-> n,
                 row |-> [tbl[n] EXCEPT !.is_enabled = FALSE]])

\* DELETE FROM flags WHERE name = %s
Delete(tbl, n) ==
    IF ~tbl[n].exists
    THEN Result("none", 0, NoWrite)
    ELSE Result("none", 1, [kind |-> "delete", name |-> n, row |-> NoRow])

\* The flag names in the order ORDER BY name puts them.
NameOrder == <<"", "a">>
NameIndex(n) == CHOOSE i \in 1 .. Len(NameOrder) : NameOrder[i] = n
NameBefore(a, b) == NameIndex(a) < NameIndex(b)

\* A row as the dict_row cursor hands it out: the name with its columns.
Item(n, row) == [name |-> n, row |-> row]

RECURSIVE InsertByName(_, _)
InsertByName(item, seq) ==
    IF seq = <<>> THEN <<item>>
    ELSE IF NameBefore(item.name, Head(seq).name) THEN <<item>> \o seq
    ELSE <<Head(seq)>> \o InsertByName(item, Tail(seq))

RECURSIVE SortByName(_)
SortByName(items) ==
    IF items = {} THEN <<>>
    ELSE LET x == CHOOSE x \in items : TRUE
         IN InsertByName(x, SortByName(items \ {x}))

RECURSIVE Reversed(_)
Reversed(seq) ==
    IF seq = <<>> THEN <<>> ELSE Reversed(Tail(seq)) \o <<Head(seq)>>

\* Variant: the query written with ORDER BY name DESC.
OrderByName_Desc(tbl) ==
    Reversed(SortByName({Item(n, tbl[n]) : n \in {m \in DOMAIN tbl : tbl[m].exists}}))

\* cur.fetchall() after SELECT * FROM flags ORDER BY name
OrderByName(tbl) ==
    SortByName({Item(n, tbl[n]) : n \in {m \in DOMAIN tbl : tbl[m].exists}})

\* What the handler fetches after its statement: fetchone() of RETURNING *
\* (create, update), fetchone() / fetchall() of the SELECT; delete fetches
\* nothing.
Fetched(q, tbl, res) ==
    CASE q.op \in {"create_flag", "update_flag"} ->
            (IF res.write.kind = "none" THEN <<>>
             ELSE <<Item(res.write.name, res.write.row)>>)
      [] q.op = "get_flag" ->
            (IF tbl[q.name].exists THEN <<Item(q.name, tbl[q.name])>>
             ELSE <<>>)
      [] q.op = "get_flags" -> OrderByName(tbl)
      [] OTHER -> <<>>

Statement(q, tbl, t) ==
    CASE q.op = "create_flag" -> Insert(tbl, q.data, t)
      [] q.op = "get_flags"   -> SelectAll(tbl)
      [] q.op = "get_flag"    -> Select(tbl, q.name)
      [] q.op = "update_flag" -> Update(tbl, q.name, q.data, t)
      [] q.op = "delete_flag" -> Delete(tbl, q.name)

\* What each handler does with the statement's result, up to its commit:
\* the status it returns at once, 0 when it goes on to conn.commit().
AfterExecute(op, res) ==
    CASE op = "get_flags" -> 200
      [] op = "get_flag" -> (IF res.rowcount = 0 THEN 404 ELSE 200)
      [] op \in {"update_flag", "delete_flag"} ->
            (IF res.rowcount = 0 THEN 404 ELSE 0)
      [] OTHER -> 0

Seen(q, tbl) ==
    IF q.op = "get_flags" THEN "none"
    ELSE IF tbl[Target(q)].exists THEN "found" ELSE "absent"

\* cur.execute(...), first half: on an idle connection psycopg first sends
\* BEGIN, a round trip of its own. The transaction's start time, which is what
\* NOW() returns in it, is the database clock at that moment.
begin(r) ==
    LET q == req[r] IN
    /\ q.pc = "begin"
    /\ \E t \in clock .. MaxClock :
         /\ q.op \notin Mutating => t = clock
         /\ clock' = t
         /\ req' = [req EXCEPT ![r] =
                      [q EXCEPT !.pc = "execute", !.tx = "intrans", !.now = t]]
    /\ UNCHANGED <<flags, checked_out>>

\* cur.execute(...), second half: the statement runs against the rows
\* committed by then. A write waits for an uncommitted write of the same row.
execute(r) ==
    LET q == req[r] IN
    /\ q.pc = "execute"
    /\ q.op \in Mutating => ~Locked(r, Target(q))
    /\ \/ /\ LET res == Statement(q, flags, q.now) IN
               /\ clock' = clock
               /\ req' = [req EXCEPT ![r] =
                    IF res.raised # "none"
                    THEN [q EXCEPT !.pc = "except", !.exc = res.raised,
                                   !.tx = "inerror", !.hit = Seen(q, flags)]
                    ELSE IF AfterExecute(q.op, res) # 0
                    THEN [q EXCEPT !.pc = "finally", !.tx = "intrans",
                                   !.hit = Seen(q, flags),
                                   !.fetched = Fetched(q, flags, res),
                                   !.status = AfterExecute(q.op, res)]
                    ELSE [q EXCEPT !.pc = "commit", !.tx = "intrans",
                                   !.hit = Seen(q, flags),
                                   !.fetched = Fetched(q, flags, res),
                                   !.pending = res.write]]
       \/ /\ clock' = clock
          /\ req' = [req EXCEPT ![r] =
                       [q EXCEPT !.pc = "except", !.exc = "Exception",
                                 !.tx = "inerror", !.fault = "execute"]]
    /\ UNCHANGED <<flags, checked_out>>

\* The table after a transaction's write is committed.
Apply(tbl, w) ==
    IF w.kind = "none" THEN tbl ELSE [tbl EXCEPT ![w.name] = w.row]

\* The status each handler returns after its commit.
Success(op) ==
    CASE op = "create_flag" -> 201
      [] op = "delete_flag" -> 204
      [] OTHER -> 200

\* conn.commit()
commit(r) ==
    LET q == req[r] IN
    /\ q.pc = "commit"
    /\ \/ /\ flags' = Apply(flags, q.pending)
          /\ req' = [req EXCEPT ![r] =
                       [q EXCEPT !.pc = "finally", !.tx = "idle",
                                 !.pending = NoWrite, !.tx_end = "commit",
                                 !.status = Success(q.op)]]
       \/ /\ flags' = flags
          /\ req' = [req EXCEPT ![r] =
                       [q EXCEPT !.pc = "except", !.exc = "Exception",
                                 !.tx = "inerror", !.fault = "commit"]]
    /\ UNCHANGED <<clock, checked_out>>

\* ---------------------------------------------------------------- except
\* Which except clause catches, and whether it calls conn.rollback():
\* "always" (unguarded), "if_conn" (`if conn:`) or "never".
RollbackPolicy(op, exc) ==
    CASE op = "create_flag" ->
            (IF exc = "UniqueViolation" THEN "always" ELSE "if_conn")
      [] op \in {"get_flags", "get_flag"} -> "never"
      [] OTHER -> "always"

\* The status the except clause returns.
ExceptStatus(op, exc) ==
    IF op = "create_flag" /\ exc = "UniqueViolation" THEN 409 ELSE 500

except_clause(r) ==
    LET q == req[r]
        policy == RollbackPolicy(q.op, q.exc)
        calls == policy = "always" \/ (policy = "if_conn" /\ q.conn = "set")
    IN
    /\ q.pc = "except"
    /\ \/ \* no rollback is called
          /\ ~calls
          /\ req' = [req EXCEPT ![r] =
                       [q EXCEPT !.pc = "finally",
                                 !.status = ExceptStatus(q.op, q.exc)]]
       \/ \* conn.rollback() on a name that was never bound: UnboundLocalError
          /\ calls /\ q.conn # "set"
          /\ req' = [req EXCEPT ![r] =
                       [q EXCEPT !.pc = "finally", !.exc = "uncaught"]]
       \/ \* conn.rollback() succeeds
          /\ calls /\ q.conn = "set"
          /\ req' = [req EXCEPT ![r] =
                       [q EXCEPT !.pc = "finally", !.tx = "idle",
                                 !.pending = NoWrite, !.tx_end = "rollback",
                                 !.status = ExceptStatus(q.op, q.exc)]]
       \/ \* conn.rollback() raises inside the except clause
          /\ calls /\ q.conn = "set"
          /\ req' = [req EXCEPT ![r] =
                       [q EXCEPT !.pc = "finally", !.exc = "uncaught",
                                 !.fault = "rollback"]]
    /\ UNCHANGED <<flags, clock, checked_out>>

\* ---------------------------------------------------------------- finally
\* `if cur: cur.close()` then `if conn: pool.putconn(conn)`. Testing a name
\* that was never bound raises UnboundLocalError and skips the rest. An
\* exception that leaves the handler is answered 500 by Flask. putconn
\* resets the connection: the pool rolls back what is still open.
finally_clause(r) ==
    LET q == req[r] IN
    /\ q.pc = "finally"
    /\ IF q.cur = "unbound"
       THEN /\ req' = [req EXCEPT ![r] =
                         [q EXCEPT !.pc = "done", !.status = 500,
                                   !.uncaught = TRUE]]
            /\ checked_out' = checked_out
       ELSE /\ req' = [req EXCEPT ![r] =
                 [q EXCEPT !.pc = "done",
                           !.puts = IF q.conn = "set" THEN @ + 1 ELSE @,
                           !.tx_at_put = IF q.conn = "set" THEN q.tx ELSE @,
                           !.tx = IF q.conn = "set" THEN "idle" ELSE @,
                           !.pending = IF q.conn = "set" THEN NoWrite ELSE @,
                           !.status = IF q.exc = "uncaught" THEN 500 ELSE @,
                           !.uncaught = (q.exc = "uncaught")]]
            /\ checked_out' =
                 IF q.conn = "set" THEN checked_out - 1 ELSE checked_out
    /\ UNCHANGED <<flags, clock>>

\* ---------------------------------------------------------------- system
Next ==
    \E r \in Reqs :
        \/ Arrive(r)
        \/ Respond(r)
        \/ require_auth(r)
        \/ handler(r)
        \/ getconn(r)
        \/ cursor(r)
        \/ begin(r)
        \/ execute(r)
        \/ commit(r)
        \/ except_clause(r)
        \/ finally_clause(r)

Spec == Init /\ [][Next]_vars

AuthPassed(q) ==
    q.auth.called /\ q.auth.raised = "none" /\ q.auth.status_code = 200

\* ---------------------------------------------------------------- interleaved
\* Several requests in flight at once, each stepping as above. They all carry
\* a credential the validation service accepts and address flag "a"; the
\* bodies are two creates and two updates.
NumConc == 2
ConcReqs == 1 .. NumConc

ConcBodies ==
    { d \in CreateBodies : d.has_name /\ d.name = "a"
                           /\ d.has_description = d.has_is_enabled } \cup
    { d \in UpdateBodies : d.has_is_enabled /\ d.is_enabled
                           /\ ~d.has_description } \cup
    { d \in UpdateBodies : d.has_description /\ d.description = ""
                           /\ d.has_is_enabled /\ ~d.is_enabled } \cup
    {NullBody}

NoFault(r) == req'[r].fault = "none"

InitConc ==
    /\ flags = [n \in FlagNames |-> NoRow]
    /\ clock = 0
    /\ checked_out = 0
    /\ req = [r \in ConcReqs |-> IdleReq]

NextConc ==
    \E r \in ConcReqs :
        \/ Arrive(r) /\ req'[r].auth_header = "key"
                     /\ req'[r].op \in Mutating \cup {"get_flag"}
        \/ Respond(r)
        \/ require_auth(r) /\ AuthPassed(req'[r])
        \/ handler(r) /\ req'[r].data \in ConcBodies
        \/ getconn(r) /\ NoFault(r)
        \/ cursor(r) /\ NoFault(r)
        \/ begin(r)
        \/ execute(r) /\ NoFault(r)
        \/ commit(r) /\ NoFault(r)
        \/ except_clause(r) /\ NoFault(r)
        \/ finally_clause(r)

SpecConc == InitConc /\ [][NextConc]_vars

\* ---------------------------------------------------------------- race
\* A race: each racer sends one request, a create of flag "a" or a delete of
\* it, with an accepted credential, and the requests run interleaved. The
\* table starts empty or holding flag "a".
NumRacers == 2
Racers == 1 .. NumRacers

RowA == [exists |-> TRUE, description |-> "", is_enabled |-> FALSE,
         created_at |-> 0, updated_at |-> 0]

InitRace ==
    /\ flags \in {[n \in FlagNames |-> NoRow],
                  [n \in FlagNames |-> IF n = "a" THEN RowA ELSE NoRow]}
    /\ clock = 0
    /\ checked_out = 0
    /\ req = [r \in Racers |-> IdleReq]

NextRace ==
    \E r \in Racers :
        \/ Arrive(r) /\ req'[r].auth_header = "key"
                     /\ req'[r].op \in {"create_flag", "delete_flag"}
        \/ require_auth(r) /\ AuthPassed(req'[r])
        \/ handler(r) /\ req'[r].data \in ConcBodies
        \/ getconn(r) /\ NoFault(r)
        \/ cursor(r) /\ NoFault(r)
        \/ begin(r)
        \/ execute(r) /\ NoFault(r)
        \/ commit(r) /\ NoFault(r)
        \/ except_clause(r) /\ NoFault(r)
        \/ finally_clause(r)

SpecRace == InitRace /\ [][NextRace]_vars

\* ---------------------------------------------------------------- pool
\* Clients that keep sending list requests with an accepted credential,
\* served interleaved. getconn() and cursor() can raise; the
\* validation call answers at once and the statement itself succeeds.
NumClients == 3
Clients == 1 .. NumClients

InitPool ==
    /\ flags = [n \in FlagNames |-> NoRow]
    /\ clock = 0
    /\ checked_out = 0
    /\ req = [r \in Clients |-> IdleReq]

StepPool(r) ==
    \/ Respond(r)
    \/ require_auth(r) /\ AuthPassed(req'[r]) /\ req'[r].waited = 0
    \/ handler(r)
    \/ getconn(r)
    \/ cursor(r)
    \/ begin(r)
    \/ execute(r) /\ NoFault(r)
    \/ except_clause(r)
    \/ finally_clause(r)

ArrivePool(r) ==
    Arrive(r) /\ req'[r].auth_header = "key" /\ req'[r].op = "get_flags"

NextPool == \E r \in Clients : ArrivePool(r) \/ StepPool(r)

SpecPool == InitPool /\ [][NextPool]_vars

\* Each request is served by a thread of its own, which the scheduler keeps
\* running: a request that can take a step eventually takes one. getconn()
\* can always take one, because waiting on a full pool ends with the pool's
\* timeout exception. Nothing obliges a client to send a request.
FairPool == SpecPool /\ \A r \in Clients : WF_vars(StepPool(r))

\* ---------------------------------------------------------------- claims
Done(q) == q.pc = "done"
GateRejected == {401, 503, 504}

\* C1: every connection a request obtained with getconn() is given back with
\* putconn() exactly once by the time the request has been answered.
C1_ConnectionGivenBackOnce ==
    \A r \in Reqs : Done(req[r]) => req[r].puts = req[r].gets

\* C2: a mutating handler never calls putconn on a connection whose
\* transaction it has neither committed nor rolled back (stated for the
\* requests in which no library call raised).
C2_TransactionEndedBeforeRelease ==
    \A r \in Reqs :
        (/\ Done(req[r]) /\ req[r].op \in Mutating
         /\ req[r].puts > 0 /\ req[r].fault = "none")
        => req[r].tx_at_put = "idle"

\* C3: the wrapped handler starts, a connection is acquired and a statement
\* is run only for a request whose validation call answered 200; a request
\* the gate rejects (401, 503, 504) goes from the gate straight to its
\* response, leaving the flags table and the pool's checked-out count as
\* they were.
C3_GateBeforeHandler ==
    [][\A r \in Reqs :
         LET q == req[r]
             q2 == req'[r]
         IN
         /\ (q2.ran \/ q2.gets > 0 \/ q2.hit # "none") => AuthPassed(q2)
         /\ (Done(q2) /\ q2.status \in GateRejected)
               => ~q2.ran /\ q2.gets = 0 /\ q2.hit = "none"
         /\ (q.pc = "gate" /\ Done(q2))
               => /\ q2.status \in GateRejected
                  /\ flags' = flags
                  /\ checked_out' = checked_out]_vars

C3_Witness ==
    \E r \in Reqs :
        /\ Done(req[r]) /\ req[r].auth.called /\ req[r].status = 503
        /\ flags["a"].exists /\ checked_out > 0

\* C4: a request with no Authorization header, or an empty one, is answered
\* 401 by the gate itself: no validation call is made, the handler does not
\* run, no connection is acquired and no statement is executed.
C4_NoHeaderNoCall ==
    \A r \in Reqs :
        (req[r].pc # "idle" /\ req[r].auth_header \in {"None", ""})
        => /\ req[r].pc \in {"gate", "done"}
           /\ ~req[r].auth.called
           /\ ~req[r].ran
           /\ req[r].gets = 0 /\ req[r].hit = "none"
           /\ Done(req[r]) => req[r].status = 401

C4_Witness ==
    \E r \in Reqs :
        /\ Done(req[r]) /\ req[r].auth_header = "" /\ req[r].status = 401
        /\ flags["a"].exists

\* C5: with a credential present the gate's result follows from the
\* validation call alone: 200 lets the handler run and the response is the
\* handler's; any other status code is 401; a timeout is 504 and never 503;
\* any other transport failure is 503 and never 504.
C5_GateVerdict ==
    \A r \in Reqs :
        LET q == req[r] IN
        q.auth.called =>
          /\ (q.auth.raised = "none" /\ q.auth.status_code = 200)
                => (Done(q) => q.ran /\ q.status \notin GateRejected)
          /\ (q.auth.raised = "none" /\ q.auth.status_code # 200)
                => Done(q) /\ q.status = 401 /\ ~q.ran
          /\ q.auth.raised \in {"ConnectTimeout", "ReadTimeout"}
                => Done(q) /\ q.status = 504 /\ ~q.ran
          /\ q.auth.raised = "ConnectionError"
                => Done(q) /\ q.status = 503 /\ ~q.ran

C5_Witness ==
    \E r \in Reqs :
        /\ Done(req[r]) /\ req[r].auth.raised = "ReadTimeout"
        /\ req[r].status = 504

\* C6: a create whose INSERT meets a row of the same name raises, ends 409
\* (when no library call fails under it), and changes nothing in the table.
C6_DuplicateCreateConflicts ==
    [][\A r \in Reqs :
         LET q == req[r]
             q2 == req'[r]
         IN
         /\ (/\ Done(q2) /\ q2.op = "create_flag"
             /\ q2.hit = "found" /\ q2.fault = "none")
               => q2.status = 409 /\ ~q2.uncaught
         /\ (/\ q.op = "create_flag" /\ q.pc = "execute" /\ q2 # q
             /\ flags[q.data.name].exists)
               => q2.pc = "except" /\ flags' = flags
         /\ (q.op = "create_flag" /\ q.hit = "found" /\ q2 # q)
               => flags' = flags]_vars

C6_Witness ==
    \E r \in Reqs :
        /\ Done(req[r]) /\ req[r].op = "create_flag" /\ req[r].hit = "found"
        /\ req[r].status = 409
        /\ flags[req[r].data.name].exists
        /\ flags[req[r].data.name].is_enabled # req[r].data.is_enabled

\* C7: a failure of getconn, of cursor creation, of execute or of commit is
\* caught in the handler and answered with the structured 500, never by an
\* exception leaving the handler, and the connection it acquired is released
\* with no transaction left open.
C7_FailureAnswered500 ==
    \A r \in Reqs :
        (Done(req[r])
         /\ req[r].fault \in {"getconn", "cursor", "execute", "commit"})
        => /\ req[r].status = 500 /\ ~req[r].uncaught
           /\ req[r].puts = req[r].gets
           /\ req[r].tx_at_put \in {"none", "idle"}

\* Body with neither 'description' nor 'is_enabled' (None and {} included).
NoRecognizedField(d) == d.null \/ ~(d.has_description \/ d.has_is_enabled)

\* C8: an update whose body is empty or names neither 'description' nor
\* 'is_enabled' ends 400 in the handler's first step: no connection is
\* acquired, no statement runs and the table is left as it was, whether or
\* not the named flag exists.
C8_UpdateWithoutFieldsRejected ==
    [][\A r \in Reqs :
         LET q == req[r]
             q2 == req'[r]
         IN
         /\ (/\ Done(q2) /\ q2.op = "update_flag" /\ q2.ran
             /\ NoRecognizedField(q2.data))
               => q2.status = 400 /\ q2.gets = 0 /\ q2.hit = "none"
         /\ (/\ q.op = "update_flag" /\ q.pc = "handler" /\ q2 # q
             /\ NoRecognizedField(q2.data))
               => Done(q2) /\ flags' = flags /\ checked_out' = checked_out
        ]_vars

C8_Witness ==
    \E r \in Reqs :
        /\ Done(req[r]) /\ req[r].op = "update_flag" /\ req[r].ran
        /\ req[r].data.has_other /\ req[r].status = 400
        /\ flags[req[r].name].exists

\* C9: a create whose body is missing, has no 'name' or has an empty 'name'
\* ends 400 without acquiring a connection and without inserting a row
\* (stated for the requests in which no library call raised).
C9_CreateRequiresNonEmptyName ==
    \A r \in Reqs :
        (/\ Done(req[r]) /\ req[r].op = "create_flag" /\ req[r].ran
         /\ req[r].fault = "none"
         /\ (req[r].data.null \/ ~req[r].data.has_name
                \/ req[r].data.name = ""))
        => req[r].status = 400 /\ req[r].gets = 0

\* C10: an update (with a recognized field) or a delete whose statement finds
\* no row of that name ends 404 (when no library call fails under it) and
\* none of its steps changes the table.
C10_MissingRowNotFound ==
    [][\A r \in Reqs :
         LET q == req[r]
             q2 == req'[r]
         IN
         /\ (/\ Done(q2) /\ q2.op \in {"update_flag", "delete_flag"}
             /\ q2.hit = "absent" /\ q2.fault = "none")
               => q2.status = 404 /\ ~q2.uncaught
         /\ (/\ q.op \in {"update_flag", "delete_flag"} /\ q.pc = "execute"
             /\ q2 # q /\ ~flags[q.name].exists)
               => q2.pc \in {"finally", "except"} /\ flags' = flags
         /\ (/\ q.op \in {"update_flag", "delete_flag"} /\ q.hit = "absent"
             /\ q2 # q)
               => flags' = flags]_vars

C10_Witness ==
    \E r \in Reqs :
        /\ Done(req[r]) /\ req[r].op = "update_flag" /\ req[r].hit = "absent"
        /\ req[r].status = 404
        /\ ~flags[req[r].name].exists /\ flags[""].exists


\* C11: a successful update of flag n sets the supplied fields (description,
\* is_enabled) to the supplied values and touches nothing else but
\* updated_at: the row's created_at, every recognized field not supplied and
\* every other row are as before, and the row returned is the row stored.
C11_UpdateFrame ==
    [][\A r \in Reqs :
         LET q == req[r]
             q2 == req'[r]
             old == flags[q.name]
             new == flags'[q.name]
         IN
         (q.op = "update_flag" /\ q.pc = "commit" /\ q2.pc = "finally")
         => /\ q2.status = 200
            /\ old.exists /\ new.exists
            /\ new.created_at = old.created_at
            /\ new.description =
                 IF q.data.has_description THEN q.data.description
                 ELSE old.description
            /\ new.is_enabled =
                 IF q.data.has_is_enabled THEN q.data.is_enabled
                 ELSE old.is_enabled
            /\ \A m \in FlagNames \ {q.name} : flags'[m] = flags[m]
            /\ q2.fetched = <<Item(q.name, new)>>]_vars

C11_Witness ==
    \E r \in Reqs :
        /\ Done(req[r]) /\ req[r].op = "update_flag" /\ req[r].status = 200
        /\ req[r].data.has_description /\ ~req[r].data.has_is_enabled
        /\ req[r].data.description = ""
        /\ flags[req[r].name].is_enabled
        /\ flags[req[r].name].created_at < flags[req[r].name].updated_at
        /\ flags[""].exists


\* C12: a create whose name is not in the table ends 201 (when no library
\* call fails under it); the row it stores has the body's name, the body's
\* description or '' when omitted, the body's is_enabled or false when
\* omitted, and created_at equal to updated_at; the row returned is the row
\* stored, and a get-by-name that finds the row returns 200 with the row as
\* stored.
C12_CreateEchoesInput ==
    [][\A r \in Reqs :
         LET q == req[r]
             q2 == req'[r]
             n == q.data.name
             new == flags'[n]
         IN
         /\ (/\ Done(q2) /\ q2.op = "create_flag"
             /\ q2.hit = "absent" /\ q2.fault = "none")
               => q2.status = 201
         /\ (q.op = "create_flag" /\ q.pc = "commit" /\ q2.pc = "finally")
               => /\ q2.status = 201
                  /\ new.exists
                  /\ new.description =
                       IF q.data.has_description THEN q.data.description
                       ELSE ""
                  /\ new.is_enabled =
                       IF q.data.has_is_enabled THEN q.data.is_enabled
                       ELSE FALSE
                  /\ new.created_at = new.updated_at
                  /\ q2.fetched = <<Item(n, new)>>
                  /\ \A m \in FlagNames \ {n} : flags'[m] = flags[m]
         /\ (/\ q.op = "get_flag" /\ q.pc = "execute" /\ q2.pc = "finally"
             /\ flags[q.name].exists)
               => /\ q2.status = 200
                  /\ q2.fetched = <<Item(q.name, flags[q.name])>>
                  /\ flags' = flags]_vars

C12_Witness ==
    \E r \in Reqs :
        /\ Done(req[r]) /\ req[r].op = "create_flag" /\ req[r].status = 201
        /\ req[r].data.name = "a"
        /\ req[r].data.has_description /\ ~req[r].data.has_is_enabled
        /\ req[r].fetched = <<Item("a", flags["a"])>>
        /\ flags["a"].description = "d" /\ ~flags["a"].is_enabled
        /\ flags["a"].created_at = 1


\* C13: in every state reached by any interleaving of create, get, update and
\* delete requests, every row of the table has created_at <= updated_at, and
\* no INSERT commits a row under a name the table already holds (the table is
\* keyed by name, so that is how a second row of one name would arise).
\* Holds when requests run one after another (Spec); under SpecConc an update
\* whose transaction began before the create's, and whose UPDATE runs after
\* the create committed, stores its older NOW() as updated_at.
C13_RowInvariants ==
    [][/\ \A n \in FlagNames :
            flags'[n].exists => flags'[n].created_at <= flags'[n].updated_at
       /\ \A r \in DOMAIN req :
            (/\ req[r].pc = "commit" /\ req'[r].pc = "finally"
             /\ req[r].pending.kind = "insert")
            => ~flags[req[r].pending.name].exists]_vars


\* C14: delete is a hard delete whose outcome is not idempotent. A delete that
\* commits answers 204 and leaves no row of that name, the other rows as they
\* were; a row that is absent stays absent until a create commits it; and a
\* get-by-name or a delete that runs while the row is absent answers 404 and
\* leaves the table as it found it (requests in which no library call raises).
C14_DeleteIsHard ==
    [][/\ \A r \in Reqs :
            LET q == req[r]
                q2 == req'[r]
            IN
            /\ (/\ q.op = "delete_flag" /\ q.pc = "commit" /\ q2.pc = "finally")
                  => /\ q2.status = 204
                     /\ flags[q.name].exists
                     /\ flags'[q.name] = NoRow
                     /\ \A m \in FlagNames \ {q.name} : flags'[m] = flags[m]
            /\ (/\ q.op \in {"get_flag", "delete_flag"} /\ q.pc = "execute"
                /\ q2 # q /\ q2.fault = "none" /\ ~flags[q.name].exists)
                  => /\ q2.pc = "finally" /\ q2.status = 404
                     /\ q2.hit = "absent" /\ flags' = flags
            /\ (/\ q.op \in {"get_flag", "delete_flag"} /\ q.hit = "absent"
                /\ q2 # q)
                  => flags' = flags
            /\ (/\ Done(q2) /\ q2.op \in {"get_flag", "delete_flag"}
                /\ q2.hit = "absent" /\ q2.fault = "none")
                  => q2.status = 404 /\ ~q2.uncaught
       /\ \A n \in FlagNames :
            (~flags[n].exists /\ flags'[n].exists)
              => \E r \in Reqs :
                    /\ req[r].op = "create_flag" /\ req[r].pc = "commit"
                    /\ req'[r].pc = "finally" /\ req[r].data.name = n]_vars

\* A delete of an existing flag answered 204, its row gone and the other row
\* still there.
C14_Witness ==
    \E r \in Reqs :
        /\ Done(req[r]) /\ req[r].op = "delete_flag" /\ req[r].status = 204
        /\ req[r].hit = "found" /\ req[r].tx_end = "commit"
        /\ flags[req[r].name] = NoRow /\ flags[""].exists


\* C15: mutating requests are atomic under concurrency. When every racer's
\* request is a create of the same name that was absent, exactly one is
\* answered 201 and every other 409, and the table holds one row of that name,
\* built from the body of the request answered 201; when every racer's request
\* is a delete of the same existing name, exactly one is answered 204 and every
\* other 404, and the row is gone. No two open transactions hold a write on
\* the same row.
C15_OneWinner ==
    LET Over(op) ==
            \A r \in Racers :
                Done(req[r]) /\ req[r].op = op /\ req[r].hit # "none"
    IN
    /\ (Over("create_flag") /\ \E r \in Racers : req[r].hit = "absent")
          => \E w \in Racers :
                /\ req[w].status = 201
                /\ \A o \in Racers \ {w} : req[o].status = 409
                /\ flags["a"] =
                     [exists |-> TRUE,
                      description |-> IF req[w].data.has_description
                                      THEN req[w].data.description ELSE "",
                      is_enabled |-> IF req[w].data.has_is_enabled
                                     THEN req[w].data.is_enabled ELSE FALSE,
                      created_at |-> req[w].now, updated_at |-> req[w].now]
    /\ (Over("delete_flag") /\ \E r \in Racers : req[r].hit = "found")
          => /\ \E w \in Racers :
                   /\ req[w].status = 204
                   /\ \A o \in Racers \ {w} : req[o].status = 404
             /\ flags["a"] = NoRow
    /\ \A r \in Racers, o \in Racers :
          (/\ r # o /\ req[r].pending.kind # "none"
           /\ req[o].pending.kind # "none")
            => req[r].pending.name # req[o].pending.name

\* Two creates overlapped: the one answered 409 began its transaction before
\* the one answered 201 and ran its INSERT after that one committed.
C15_Witness ==
    \E w \in Racers, o \in Racers :
        /\ \A r \in Racers : Done(req[r]) /\ req[r].op = "create_flag"
        /\ req[w].status = 201 /\ req[o].status = 409
        /\ req[o].now < req[w].now
        /\ req[w].data.has_description /\ flags["a"].description = "d"
        /\ flags["a"].created_at = req[w].now


\* C16: a successful update refreshes updated_at. With requests served one
\* after another, the row an update commits and returns has updated_at equal
\* to the NOW() of the update's transaction, which is not smaller than the
\* row's previous updated_at, and strictly greater than the row's created_at
\* whenever the update's transaction began later than the clock reading the
\* create stored.
C16_UpdateRefreshesStamp ==
    [][\A r \in Reqs :
         LET q == req[r]
             q2 == req'[r]
             old == flags[q.name]
             new == flags'[q.name]
         IN
         (/\ q.op = "update_flag" /\ q.pc = "commit" /\ q2.pc = "finally")
           => /\ q2.status = 200
              /\ new.exists /\ old.exists
              /\ new.updated_at = q.now
              /\ new.updated_at >= old.updated_at
              /\ new.created_at = old.created_at
              /\ q.now > old.created_at => new.updated_at > new.created_at
              /\ q2.fetched = <<Item(q.name, new)>>]_vars

\* A flag created at time 0 and updated in a transaction begun at time 2.
C16_Witness ==
    \E r \in Reqs :
        /\ Done(req[r]) /\ req[r].op = "update_flag" /\ req[r].status = 200
        /\ req[r].now = 2
        /\ flags["a"].exists /\ flags["a"].created_at = 0
        /\ flags["a"].updated_at = 2
        /\ req[r].fetched = <<Item("a", flags["a"])>>


\* C17: list answers 200 with exactly the rows of the table, each once, in
\* ascending order of name, and with the empty array when the table is empty;
\* neither list nor get-by-name ever changes the table (the 200 stated for
\* requests the Auth Gate lets through and in which no library call raises).
C17_ListIsOrderedSnapshot ==
    [][\A r \in Reqs :
         LET q == req[r]
             q2 == req'[r]
             rows == q2.fetched
         IN
         /\ (/\ q.op = "get_flags" /\ q.pc = "execute" /\ q2 # q
             /\ q2.fault = "none")
               => /\ q2.pc = "finally" /\ q2.status = 200
                  /\ Len(rows) = Cardinality({n \in FlagNames : flags[n].exists})
                  /\ \A n \in FlagNames :
                        flags[n].exists
                          <=> \E i \in 1 .. Len(rows) : rows[i].name = n
                  /\ \A i \in 1 .. Len(rows) :
                        rows[i].row = flags[rows[i].name]
                  /\ \A i \in 1 .. Len(rows), j \in 1 .. Len(rows) :
                        i < j => NameIndex(rows[i].name) < NameIndex(rows[j].name)
                  /\ (\A n \in FlagNames : ~flags[n].exists) => rows = <<>>
         /\ (q.op \in {"get_flags", "get_flag"} /\ q2 # q) => flags' = flags
         /\ (/\ Done(q2) /\ q2.op = "get_flags" /\ AuthPassed(q2)
             /\ q2.fault = "none")
               => q2.status = 200 /\ ~q2.uncaught]_vars

\* A list answered 200 with both rows of the table, "" before "a".
C17_Witness ==
    \E r \in Reqs :
        /\ Done(req[r]) /\ req[r].op = "get_flags" /\ req[r].status = 200
        /\ flags[""].exists /\ flags["a"].exists
        /\ req[r].fetched = <<Item("", flags[""]), Item("a", flags["a"])>>


\* C18: a validation call that does not answer within the bound (timeout)
\* makes the gate answer 504, and it does so no later than the bound after the
\* call started.
C18_GateAnswersWithinBound ==
    \A r \in Reqs :
        (Done(req[r]) /\ IsTimeout(req[r].auth.raised))
          => req[r].status = 504 /\ req[r].waited <= timeout


\* C19: with any requests in flight, a request holds at most one pool
\* connection at a time, the connections checked out never exceed max_size
\* and cover the ones the requests in flight hold, and a getconn() called
\* while max_size connections are checked out hands out none: the request
\* stays waiting in getconn() or leaves it with the exception.
C19_PoolBounded ==
    [][/\ checked_out' <= max_size
       /\ \A r \in Clients :
            /\ req'[r].gets <= 1
            /\ req'[r].puts <= req'[r].gets
            /\ (req'[r].conn = "set") <=> (req'[r].gets = 1)
       /\ Cardinality({r \in Clients : req'[r].gets > req'[r].puts
                                        /\ req'[r].pc # "done"})
            <= checked_out'
       /\ \A r \in Clients :
            (req[r].pc = "getconn" /\ checked_out = max_size)
              => /\ checked_out' <= max_size
                 /\ req'[r].gets = 0
                 /\ req'[r].pc \in {"getconn", "except"}]_vars

\* Every connection is checked out, one of them held by a request that is
\* running its statement, while another request waits in getconn().
C19_Witness ==
    /\ checked_out = max_size
    /\ \E r \in Clients, o \in Clients :
          /\ req[r].pc = "getconn"
          /\ req[o].pc = "execute" /\ req[o].conn = "set"


\* C20: with more requests than free connections and weak fairness on the
\* requests' steps, the pool never deadlocks: a request that waits in getconn()
\* eventually leaves it with a connection or with the exception, and every
\* request past the Auth Gate is eventually answered (FairPool).
C20_EveryRequestAnswered ==
    \A r \in Clients :
        /\ (req[r].pc = "getconn") ~> (req[r].pc \in {"cursor", "except"})
        /\ (req[r].pc = "handler") ~> (req[r].pc = "done")

\* C20, its last part: every request eventually releases its connection, so
\* once every request has been answered all connections are back in the pool.
C20_AllConnectionsReturned ==
    (\A r \in Clients : req[r].pc \in {"idle", "done"}) => checked_out = 0

====
